---- MODULE Spec2Model ----
(***************************************************************************)
(* cirko: transliteration between Serbian Cyrillic and Latin script.       *)
(*                                                                         *)
(* A char is its Unicode scalar value, a string is a sequence of chars.    *)
(* Byte offsets are UTF-8 byte offsets, as char_indices() and the regex    *)
(* crate report them.  The state machine runs a call of one of the two     *)
(* public converters of src/src/lib.rs, one loop iteration per step.       *)
(* src/src/main.rs imports cirko::lat_to_cir, which lib.rs does not        *)
(* define, so the command-line program does not build and no step runs     *)
(* main; only the test of its line 50 is modelled, as an operator.         *)
(***************************************************************************)
EXTENDS Integers, Sequences, FiniteSets, TLC

VARIABLES
    callee,      \* the converter that is called: "cyr_to_lat" or "lat_to_cyr"
    input,       \* the text handed to the converter
    pc,          \* "call", "cyr_to_lat", "lat_to_cyr", "done", "panic", "hang"
    chars,       \* the char_indices() iterator: index (from 1) of the next char
    output,      \* the String being built
    skip_until,  \* lat_to_cyr: byte offset up to which digraphs are not merged
    pos,         \* byte offset of the char taken by the last chars.next()
    c,           \* the char taken by the last chars.next()
    step         \* the branch of the loop body the last iteration took

vars == <<callee, input, pc, chars, output, skip_until, pos, c, step>>

----------------------------------------------------------------------------
(* Bounds of the model *)

\* An input is a concatenation of at most MaxFrags fragments of one family.
MaxFrags == 3

----------------------------------------------------------------------------
(* Option values *)

None == [some |-> FALSE, v |-> 0]

Some(x) == [some |-> TRUE, v |-> x]

Max(S) == CHOOSE x \in S : \A y \in S : y <= x

Min2(a, b) == IF a <= b THEN a ELSE b

----------------------------------------------------------------------------
(* char methods of the standard library, on the code points the tables,   *)
(* the patterns and the inputs use                                         *)

Upper1 == (65..90) \cup {262, 268, 272, 352, 381} \cup (1024..1071) \cup {8490}

\* c.is_uppercase()
is_uppercase(ch) == ch \in Upper1

\* c.to_lowercase().next().unwrap(): A-Z, the Latin letters with diacritics
\* of the alphabet, Cyrillic U+0400..U+042F, and U+212A KELVIN SIGN -> k
to_lowercase(ch) ==
    IF ch >= 65 /\ ch <= 90 THEN ch + 32
    ELSE IF ch \in {262, 268, 272, 352, 381} THEN ch + 1
    ELSE IF ch >= 1024 /\ ch <= 1039 THEN ch + 80
    ELSE IF ch >= 1040 /\ ch <= 1071 THEN ch + 32
    ELSE IF ch = 8490 THEN 107
    ELSE ch

\* c.to_uppercase().next().unwrap()
to_uppercase(ch) ==
    IF ch >= 97 /\ ch <= 122 THEN ch - 32
    ELSE IF ch \in {263, 269, 273, 353, 382} THEN ch - 1
    ELSE IF ch >= 1104 /\ ch <= 1119 THEN ch - 80
    ELSE IF ch >= 1072 /\ ch <= 1103 THEN ch - 32
    ELSE ch

\* char::len_utf8
len_utf8(ch) == IF ch < 128 THEN 1 ELSE IF ch < 2048 THEN 2 ELSE IF ch < 65536 THEN 3 ELSE 4

RECURSIVE byte_offset(_, _)
\* the byte offset char_indices() reports for the i-th char of s: the bytes
\* of the chars before it
byte_offset(s, i) == IF i <= 1 THEN 0 ELSE byte_offset(s, i - 1) + len_utf8(s[i - 1])

\* str::len(): the length of a string in bytes
byte_len(s) == byte_offset(s, Len(s) + 1)

RECURSIVE char_from(_, _, _)
\* the index of the char that starts b bytes after the start of the i-th char
\* (Len(s) + 1 for the end of s), or 0 when no char starts there
char_from(s, i, b) ==
    IF b = 0 THEN i
    ELSE IF i > Len(s) \/ b < 0 THEN 0
    ELSE char_from(s, i + 1, b - len_utf8(s[i]))

\* the index (from 1) of the char that starts at byte offset b, 0 if none
char_at(s, b) == char_from(s, 1, b)

\* str::is_char_boundary
is_char_boundary(s, b) == char_at(s, b) # 0

\* str::get(pos..end): the slice, or None off a char boundary or past the end
get(s, from, to) ==
    IF from <= to /\ is_char_boundary(s, from) /\ is_char_boundary(s, to)
    THEN Some(SubSeq(s, char_at(s, from), char_at(s, to) - 1))
    ELSE [some |-> FALSE, v |-> <<>>]

\* String::to_lowercase
str_to_lowercase(s) == [i \in 1..Len(s) |-> to_lowercase(s[i])]

----------------------------------------------------------------------------
(* The tables *)

\* CYR_TO_LAT: lowercase Cyrillic letter -> Latin form
CYR_TO_LAT ==
    (1072 :> <<97>>)  @@ (1073 :> <<98>>)  @@ (1074 :> <<118>>) @@ (1075 :> <<103>>) @@
    (1076 :> <<100>>) @@ (1106 :> <<273>>) @@ (1077 :> <<101>>) @@ (1078 :> <<382>>) @@
    (1079 :> <<122>>) @@ (1080 :> <<105>>) @@ (1112 :> <<106>>) @@ (1082 :> <<107>>) @@
    (1083 :> <<108>>) @@ (1113 :> <<108, 106>>) @@ (1084 :> <<109>>) @@ (1085 :> <<110>>) @@
    (1114 :> <<110, 106>>) @@ (1086 :> <<111>>) @@ (1087 :> <<112>>) @@ (1088 :> <<114>>) @@
    (1089 :> <<115>>) @@ (1090 :> <<116>>) @@ (1115 :> <<263>>) @@ (1091 :> <<117>>) @@
    (1092 :> <<102>>) @@ (1093 :> <<104>>) @@ (1094 :> <<99>>)  @@ (1095 :> <<269>>) @@
    (1119 :> <<100, 382>>) @@ (1096 :> <<353>>)

\* LAT_TO_CYR: lowercase Latin form (one or two chars) -> Cyrillic letter
LAT_TO_CYR ==
    (<<97>> :> 1072)  @@ (<<98>> :> 1073)  @@ (<<118>> :> 1074) @@ (<<103>> :> 1075) @@
    (<<100>> :> 1076) @@ (<<273>> :> 1106) @@ (<<101>> :> 1077) @@ (<<382>> :> 1078) @@
    (<<122>> :> 1079) @@ (<<105>> :> 1080) @@ (<<106>> :> 1112) @@ (<<107>> :> 1082) @@
    (<<108>> :> 1083) @@ (<<109>> :> 1084) @@ (<<110>> :> 1085) @@ (<<111>> :> 1086) @@
    (<<112>> :> 1087) @@ (<<114>> :> 1088) @@ (<<115>> :> 1089) @@ (<<116>> :> 1090) @@
    (<<263>> :> 1115) @@ (<<117>> :> 1091) @@ (<<102>> :> 1092) @@ (<<104>> :> 1093) @@
    (<<99>> :> 1094)  @@ (<<269>> :> 1095) @@ (<<353>> :> 1096) @@
    (<<100, 382>> :> 1119) @@ (<<108, 106>> :> 1113) @@ (<<110, 106>> :> 1114)

\* EXCEPTIONS: tanjug adzive nadze odzive odzvaka odzuri dzubori onjugacij
\* njukcij njekcij anjezicn (z with caron is 382, c with caron is 269)
EXCEPTIONS == {
    <<116, 97, 110, 106, 117, 103>>,
    <<97, 100, 382, 105, 118, 101>>,
    <<110, 97, 100, 382, 101>>,
    <<111, 100, 382, 105, 118, 101>>,
    <<111, 100, 382, 118, 97, 107, 97>>,
    <<111, 100, 382, 117, 114, 105>>,
    <<100, 382, 117, 98, 111, 114, 105>>,
    <<111, 110, 106, 117, 103, 97, 99, 105, 106>>,
    <<110, 106, 117, 107, 99, 105, 106>>,
    <<110, 106, 101, 107, 99, 105, 106>>,
    <<97, 110, 106, 101, 122, 105, 269, 110>> }

\* the length in bytes of the longest exception
MAX_EXCEPTION_LEN == 9

----------------------------------------------------------------------------
(* SKIP_PATTERNS: each pattern is anchored at the start of the text s it is *)
(* given; a match is reported as the index of the first char after it.      *)
(* Alternatives are tried in the regex crate's leftmost-first order: a      *)
(* greedy repetition takes the longest count the rest of the pattern        *)
(* accepts.                                                                 *)

Alnum == (48..57) \cup (65..90) \cup (97..122)

\* \w on the code points in use: ASCII letters, digits, '_', the Latin
\* Extended-A letters, Cyrillic U+0400..U+0481, KELVIN SIGN
WordChars == Alnum \cup {95} \cup (256..383) \cup (1024..1153) \cup {8490}

\* [-a-zA-Z0-9@:%._\+~#=]
UrlHead == Alnum \cup {45, 64, 58, 37, 46, 95, 43, 126, 35, 61}

\* [a-zA-Z0-9()]
UrlTld == Alnum \cup {40, 41}

\* [-a-zA-Z0-9()@:%_\+.~#?&//=]
UrlTail == Alnum \cup {45, 40, 41, 64, 58, 37, 95, 43, 46, 126, 35, 63, 38, 47, 61}

\* [a-zA-Z0-9._%+-]
EmailLocal == Alnum \cup {46, 95, 37, 43, 45}

\* [a-zA-Z0-9.-]
EmailDomain == Alnum \cup {46, 45}

\* [a-zA-Z]
Alpha == (65..90) \cup (97..122)

RECURSIVE RunLen(_, _, _)
\* the number of consecutive chars of s from index i on that are in class K
RunLen(s, i, K) ==
    IF i <= Len(s) /\ s[i] \in K THEN 1 + RunLen(s, i + 1, K) ELSE 0

\* whether s continues with the literal lit at index i
StartsWith(s, i, lit) ==
    /\ i + Len(lit) - 1 <= Len(s)
    /\ \A k \in 1..Len(lit) : s[i + k - 1] = lit[k]

\* \b between s[i-1] and s[i]: exactly one side is a word char
WordBoundary(s, i) ==
    LET before == i - 1 >= 1 /\ i - 1 <= Len(s) /\ s[i - 1] \in WordChars
        after == i >= 1 /\ i <= Len(s) /\ s[i] \in WordChars
    IN  before # after

\* the first of two alternatives that matches
OrElse(m1, m2) == IF m1.some THEN m1 ELSE m2

\* [a-zA-Z0-9()]{t}\b at index j
TldAt(s, j, t) == RunLen(s, j, UrlTld) >= t /\ WordBoundary(s, j + t)

\* ([-a-zA-Z0-9()@:%_\+.~#?&//=]*) from index e: as long as it can be
UrlTailFrom(s, e) == Some(e + RunLen(s, e, UrlTail))

\* [a-zA-Z0-9()]{1,6}\b from index j, the longest count first, then the tail
UrlTldFrom(s, j) == UrlTailFrom(s, j + Max({t \in 1..6 : TldAt(s, j, t)}))

\* [-a-zA-Z0-9@:%._\+~#=]{1,256}\. from index i, run chars of the class
\* following: the longest count k that a '.' and a top-level part follow
UrlHeadFrom(s, i, run) ==
    LET ks == {k \in 1..run : /\ i + k <= Len(s)
                              /\ s[i + k] = 46
                              /\ \E t \in 1..6 : TldAt(s, i + k + 1, t)}
    IN  IF ks = {} THEN None ELSE UrlTldFrom(s, i + Max(ks) + 1)

\* [-a-zA-Z0-9@:%._\+~#=]{1,256}\.[a-zA-Z0-9()]{1,6}\b([-a-zA-Z0-9()@:%_\+.~#?&//=]*)
\* from index i
UrlBody(s, i) == UrlHeadFrom(s, i, Min2(RunLen(s, i, UrlHead), 256))

\* (https?://)?: the length of the prefix when it is there
UrlPrefix(s) ==
    IF StartsWith(s, 1, <<104, 116, 116, 112, 115, 58, 47, 47>>) THEN 8
    ELSE IF StartsWith(s, 1, <<104, 116, 116, 112, 58, 47, 47>>) THEN 7
    ELSE 0

\* the URL pattern: with the prefix first, then without it
SkipUrl(s) == OrElse(UrlBody(s, UrlPrefix(s) + 1), UrlBody(s, 1))

\* \.[a-zA-Z]{2,} after a domain of run chars of its class that starts at
\* index d0: the longest domain that a '.' and two letters follow
EmailDomainFrom(s, d0, run) ==
    LET ds == {d \in 1..run : /\ d0 + d <= Len(s)
                              /\ s[d0 + d] = 46
                              /\ RunLen(s, d0 + d + 1, Alpha) >= 2}
    IN  IF ds = {} THEN None
        ELSE Some(d0 + Max(ds) + 1 + RunLen(s, d0 + Max(ds) + 1, Alpha))

\* @[a-zA-Z0-9.-]+\.[a-zA-Z]{2,} after a local part of l chars
EmailAt(s, l) ==
    IF l < 1 \/ l + 1 > Len(s) \/ s[l + 1] # 64 THEN None
    ELSE EmailDomainFrom(s, l + 2, RunLen(s, l + 2, EmailDomain))

\* ^[a-zA-Z0-9._%+-]+@[a-zA-Z0-9.-]+\.[a-zA-Z]{2,}
SkipEmail(s) == EmailAt(s, RunLen(s, 1, EmailLocal))

\* lit\w+ : the literal, then w >= 1 word chars
WordAfter(s, lit, w) ==
    IF StartsWith(s, 1, lit) /\ w >= 1 THEN Some(Len(lit) + 1 + w) ELSE None

\* lit\w+\} : the literal, w >= 1 word chars and a closing brace
BracedAfter(s, lit, w) ==
    IF StartsWith(s, 1, lit) /\ w >= 1 /\ StartsWith(s, Len(lit) + 1 + w, <<125>>)
    THEN Some(Len(lit) + 1 + w + 1) ELSE None

\* ^#\w+
SkipHashtag(s) == WordAfter(s, <<35>>, RunLen(s, 2, WordChars))

\* ^\\begin\{\w+\}
SkipBegin(s) ==
    BracedAfter(s, <<92, 98, 101, 103, 105, 110, 123>>, RunLen(s, 8, WordChars))

\* ^\\end\{\w+\}
SkipEnd(s) == BracedAfter(s, <<92, 101, 110, 100, 123>>, RunLen(s, 6, WordChars))

\* ^\\\w+
SkipCommand(s) == WordAfter(s, <<92>>, RunLen(s, 2, WordChars))

\* \$[^$]*\$ with a body of n chars other than '$'
MathAfter(s, n) ==
    IF StartsWith(s, 1, <<36>>) /\ StartsWith(s, 2 + n, <<36>>)
    THEN Some(2 + n + 1) ELSE None

\* ^\$[^$]*\$
SkipMath(s) == MathAfter(s, RunLen(s, 2, Nat \ {36}))

\* the patterns in the order of the list
SKIP_PATTERNS(s) ==
    <<SkipUrl(s), SkipEmail(s), SkipHashtag(s), SkipBegin(s), SkipEnd(s),
      SkipCommand(s), SkipMath(s)>>

\* find_map(|re| re.find(input)).map(|m| m.end()): the first pattern of the
\* list that matches decides; the end of its match as a byte offset into s
FirstMatch(s, ms) ==
    LET hits == {k \in 1..Len(ms) : ms[k].some}
    IN  IF hits = {} THEN None
        ELSE Some(byte_offset(s, ms[CHOOSE k \in hits : \A h \in hits : k <= h].v))

\* mutant of find_skip_match: the end of the match counted in chars
find_skip_match_in_chars(s) ==
    LET m == FirstMatch(s, SKIP_PATTERNS(s))
    IN  IF m.some THEN Some(char_at(s, m.v) - 1) ELSE None

\* find_skip_match
find_skip_match(s) == FirstMatch(s, SKIP_PATTERNS(s))

----------------------------------------------------------------------------
(* Helpers shared by the two converters *)

\* cyr_to_lat_char: the Latin form of a lowercase Cyrillic letter
cyr_to_lat_char(ch) ==
    IF ch \in DOMAIN CYR_TO_LAT THEN Some(CYR_TO_LAT[ch])
    ELSE [some |-> FALSE, v |-> <<>>]

\* &input[pos..], pos the byte offset of the i-th char
rest(s, i) == SubSeq(s, i, Len(s))

\* chars.peek(): the char the iterator would yield next, not consumed
peek(s, i) == IF i <= Len(s) THEN Some(s[i]) ELSE None

\* mutant of skip_chars: skipped.len(), the length in bytes
skip_chars_in_bytes(skipped) == byte_len(skipped)

\* skipped.chars().count()
skip_chars(skipped) == Len(skipped)

\* for _ in 0..skip_chars - 1 { chars.next(); } after the i-th char was
\* yielded: next() past the end yields nothing.  skip_chars - 1 is a usize:
\* at 0 it panics (overflow checks on) or wraps (off), and the loop then
\* runs 2^64 - 1 times.
skip_advance(s, i, n) ==
    IF n = 0 THEN [chars |-> i + 1, fail |-> "underflow"]
    ELSE [chars |-> Min2(i + 1 + (n - 1), Len(s) + 1), fail |-> ""]

\* the slice &input[pos..pos + skip_bytes] is pushed: it panics off a char
\* boundary
skip_push(s, i, skipped) ==
    IF ~skipped.some THEN [out |-> <<>>, chars |-> i + 1, fail |-> "slice"]
    ELSE [out |-> skipped.v] @@ skip_advance(s, i, skip_chars(skipped.v))

\* the skip branch of both loops, taken at the i-th char (byte offset p) when
\* the skip matcher gave skip_bytes
skip_span(s, i, p, skip_bytes) == skip_push(s, i, get(s, p, p + skip_bytes))

----------------------------------------------------------------------------
(* cyr_to_lat *)

\* mutant of second_char: the second char is pushed as the table has it
second_char_as_mapped(ch2, nxt) == ch2

\* the second char of a digraph: uppercase iff the peeked char is uppercase
second_char(ch2, nxt) ==
    IF nxt.some /\ is_uppercase(nxt.v) THEN to_uppercase(ch2) ELSE ch2

\* the first char of the Latin form: uppercase iff the source letter is
first_char(ch1, is_upper) == IF is_upper THEN to_uppercase(ch1) ELSE ch1

\* what is pushed for the char ch whose lowercase has the Latin form lat (or
\* has none); nxt is chars.peek()
cyr_push(ch, lat, nxt) ==
    IF ~lat.some THEN <<ch>>
    ELSE IF Len(lat.v) > 1
    THEN <<first_char(lat.v[1], is_uppercase(ch)), second_char(lat.v[2], nxt)>>
    ELSE <<first_char(lat.v[1], is_uppercase(ch))>>

\* what the loop body pushes for the char ch when no skip span starts at it
cyr_convert(ch, nxt) == cyr_push(ch, cyr_to_lat_char(to_lowercase(ch)), nxt)

\* the loop body at the i-th char, m the result of the skip matcher
cyr_to_lat_body(s, i, m) ==
    IF m.some
    THEN [step |-> "skip"] @@ skip_span(s, i, byte_offset(s, i), m.v)
    ELSE [step |-> IF to_lowercase(s[i]) \in DOMAIN CYR_TO_LAT
                   THEN "letter" ELSE "other",
          out |-> cyr_convert(s[i], peek(s, i + 1)),
          chars |-> i + 1,
          fail |-> ""]

\* one iteration of the loop of cyr_to_lat, the iterator standing at the i-th
\* char: what is pushed, where the iterator stands afterwards, the branch
cyr_to_lat_iter(s, i) == cyr_to_lat_body(s, i, find_skip_match(rest(s, i)))

----------------------------------------------------------------------------
(* lat_to_cyr *)

\* LAT_TO_CYR.get(key), with the case of the source char ch, or ch itself
lookup(ch, key, consumed, otherwise) ==
    IF key \in DOMAIN LAT_TO_CYR
    THEN [out |-> <<IF is_uppercase(ch) THEN to_uppercase(LAT_TO_CYR[key])
                    ELSE LAT_TO_CYR[key]>>,
          next |-> consumed]
    ELSE otherwise

\* mutant of process_char: a merged digraph takes the case of its second char
process_char_case_of_second(ch, nxt, doubles) ==
    IF doubles /\ nxt.some
    THEN lookup(nxt.v, <<to_lowercase(ch), to_lowercase(nxt.v)>>, TRUE,
                lookup(ch, <<to_lowercase(ch)>>, FALSE,
                       [out |-> <<ch>>, next |-> FALSE]))
    ELSE lookup(ch, <<to_lowercase(ch)>>, FALSE, [out |-> <<ch>>, next |-> FALSE])

\* process_char: the Cyrillic letter (or the char itself) pushed for ch, and
\* whether the peeked char nxt was consumed as the second half of a digraph
process_char(ch, nxt, doubles) ==
    IF doubles /\ nxt.some
    THEN lookup(ch, <<to_lowercase(ch), to_lowercase(nxt.v)>>, TRUE,
                lookup(ch, <<to_lowercase(ch)>>, FALSE,
                       [out |-> <<ch>>, next |-> FALSE]))
    ELSE lookup(ch, <<to_lowercase(ch)>>, FALSE, [out |-> <<ch>>, next |-> FALSE])

\* input.get(pos..pos + len) is a slice whose lowercase is an exception
is_exception(substr) == substr.some /\ str_to_lowercase(substr.v) \in EXCEPTIONS

\* for len in (1..=check_len).rev(): the longest len that is an exception
probe(s, p, check_len) ==
    LET lens == {len \in 1..check_len : is_exception(get(s, p, p + len))}
    IN  IF lens = {} THEN None ELSE Some(Max(lens))

\* the exception probe at byte offset p
found_exception(s, p) == probe(s, p, Min2(MAX_EXCEPTION_LEN, byte_len(s) - p))

\* the i-th char goes through process_char; su is the suppression marker
\* the iteration leaves
lat_char(i, r, kind, su) ==
    [step |-> kind, out |-> r.out, chars |-> IF r.next THEN i + 2 ELSE i + 1,
     skip_until |-> su, fail |-> ""]

\* the loop body below the skip test and the test pos < skip_until: exc is
\* the result of the exception probe
lat_to_cyr_probed(s, i, p, su, exc) ==
    IF exc.some
    THEN lat_char(i, process_char(s[i], peek(s, i + 1), FALSE), "exception", p + exc.v)
    ELSE lat_char(i, process_char(s[i], peek(s, i + 1), TRUE), "doubles", su)

\* the loop body at the i-th char (byte offset p), m the result of the skip
\* matcher, su the suppression marker
lat_to_cyr_body(s, i, p, su, m) ==
    IF m.some
    THEN [step |-> "skip", skip_until |-> su] @@ skip_span(s, i, p, m.v)
    ELSE IF p < su
    THEN lat_char(i, process_char(s[i], peek(s, i + 1), FALSE), "suppressed", su)
    ELSE lat_to_cyr_probed(s, i, p, su, found_exception(s, p))

\* one iteration of the loop of lat_to_cyr, the iterator standing at the i-th
\* char and the suppression marker at su
lat_to_cyr_iter(s, i, su) ==
    lat_to_cyr_body(s, i, byte_offset(s, i), su, find_skip_match(rest(s, i)))

----------------------------------------------------------------------------
(* The converters as functions of the input *)

RECURSIVE run_loop(_, _, _, _, _)
\* the loop of a converter from the i-th char on, it the iteration at that
\* char; a panic is reported as <<-1>>, which is no string
run_loop(to_latin, s, i, it, out) ==
    IF i > Len(s) THEN out
    ELSE IF it.fail # "" THEN <<-1>>
    ELSE run_loop(to_latin, s, it.chars,
                  IF it.chars > Len(s) THEN it
                  ELSE IF to_latin THEN cyr_to_lat_iter(s, it.chars)
                  ELSE lat_to_cyr_iter(s, it.chars, it.skip_until),
                  out \o it.out)

\* pub fn cyr_to_lat
cyr_to_lat(s) ==
    IF s = <<>> THEN <<>> ELSE run_loop(TRUE, s, 1, cyr_to_lat_iter(s, 1), <<>>)

\* pub fn lat_to_cyr
lat_to_cyr(s) ==
    IF s = <<>> THEN <<>> ELSE run_loop(FALSE, s, 1, lat_to_cyr_iter(s, 1, 0), <<>>)

----------------------------------------------------------------------------
(* main: the test of the automatic detection *)

\* input.chars().any(|c| ('a'..='sh').contains(&c) || ('A'..='SH').contains(&c))
\* with the Cyrillic letters U+0430..U+0448 and U+0410..U+0428
any_cyrillic(s) ==
    \E i \in 1..Len(s) : (s[i] >= 1072 /\ s[i] <= 1096) \/ (s[i] >= 1040 /\ s[i] <= 1064)

----------------------------------------------------------------------------
(* The inputs *)

\* Cyrillic text: n, j, LJ, U, a, ".a", "#a"
CyrFrags == {<<1085>>, <<1112>>, <<1033>>, <<1059>>, <<1072>>, <<46, 1072>>,
             <<35, 1072>>}

\* Latin text: l, j, L, J, d, z-caron, a, KELVIN SIGN
LatFrags == {<<108>>, <<106>>, <<76>>, <<74>>, <<100>>, <<382>>, <<97>>, <<8490>>}

\* Latin text with exceptions: "nadze", "Tanjug", ".", "a", "nj", " "
ExcFrags == {<<110, 97, 100, 382, 101>>, <<84, 97, 110, 106, 117, 103>>,
             <<46>>, <<97>>, <<110, 106>>, <<32>>}

\* text with skip spans: "\", "#", "$", s-caron, "lj", ".", "a", "\begin{",
\* "}"
SkipFrags == {<<92>>, <<35>>, <<36>>, <<353>>, <<108, 106>>, <<46>>, <<97>>,
              <<92, 98, 101, 103, 105, 110, 123>>, <<125>>}

Families == {CyrFrags, LatFrags, ExcFrags, SkipFrags}

RECURSIVE Concats(_, _)
\* the concatenations of at most n fragments of F
Concats(F, n) ==
    IF n = 0 THEN {<<>>}
    ELSE LET shorter == Concats(F, n - 1)
         IN  shorter \cup {w \o f : w \in shorter, f \in F}

Inputs == UNION {Concats(F, MaxFrags) : F \in Families}

\* the public functions of the library
Callees == {"cyr_to_lat", "lat_to_cyr"}

----------------------------------------------------------------------------
(* The state machine *)

Init ==
    /\ callee \in Callees
    /\ input \in Inputs
    /\ pc = "call"
    /\ chars = 1
    /\ output = <<>>
    /\ skip_until = 0
    /\ pos = 0
    /\ c = 0
    /\ step = "start"

\* the converter is entered: output is empty, the iterator is at the first
\* char, and in lat_to_cyr skip_until is 0
Call ==
    /\ pc = "call"
    /\ pc' = callee
    /\ step' = "call"
    /\ UNCHANGED <<callee, input, chars, output, skip_until, pos, c>>

\* the effect on the state of the loop iteration it, when it takes the
\* branch kind
Taken(it, kind) ==
    /\ it.step = kind
    /\ pos' = byte_offset(input, chars)
    /\ c' = input[chars]
    /\ step' = kind
    /\ output' = output \o it.out
    /\ chars' = it.chars
    /\ pc' \in (IF it.fail = "" THEN {pc}
                ELSE IF it.fail = "slice" THEN {"panic"}
                ELSE {"panic", "hang"})
    /\ UNCHANGED <<callee, input>>

\* cyr_to_lat: a skip span starts at the cursor
CyrSkip ==
    /\ pc = "cyr_to_lat" /\ chars <= Len(input)
    /\ Taken(cyr_to_lat_iter(input, chars), "skip")
    /\ UNCHANGED skip_until

\* cyr_to_lat: the char is a letter of the alphabet
CyrLetter ==
    /\ pc = "cyr_to_lat" /\ chars <= Len(input)
    /\ Taken(cyr_to_lat_iter(input, chars), "letter")
    /\ UNCHANGED skip_until

\* cyr_to_lat: any other char
CyrOther ==
    /\ pc = "cyr_to_lat" /\ chars <= Len(input)
    /\ Taken(cyr_to_lat_iter(input, chars), "other")
    /\ UNCHANGED skip_until

\* an iteration of lat_to_cyr and the suppression marker it leaves
LatTaken(it, kind) == Taken(it, kind) /\ skip_until' = it.skip_until

\* lat_to_cyr: a skip span starts at the cursor
LatSkip ==
    /\ pc = "lat_to_cyr" /\ chars <= Len(input)
    /\ LatTaken(lat_to_cyr_iter(input, chars, skip_until), "skip")

\* lat_to_cyr: pos < skip_until
LatSuppressed ==
    /\ pc = "lat_to_cyr" /\ chars <= Len(input)
    /\ LatTaken(lat_to_cyr_iter(input, chars, skip_until), "suppressed")

\* lat_to_cyr: an exception starts at the cursor
LatException ==
    /\ pc = "lat_to_cyr" /\ chars <= Len(input)
    /\ LatTaken(lat_to_cyr_iter(input, chars, skip_until), "exception")

\* lat_to_cyr: no exception, digraphs are merged
LatDoubles ==
    /\ pc = "lat_to_cyr" /\ chars <= Len(input)
    /\ LatTaken(lat_to_cyr_iter(input, chars, skip_until), "doubles")

\* the iterator is exhausted: the converter returns output
Return ==
    /\ pc \in {"cyr_to_lat", "lat_to_cyr"}
    /\ chars > Len(input)
    /\ pc' = "done"
    /\ step' = "return"
    /\ UNCHANGED <<callee, input, chars, output, skip_until, pos, c>>

Next ==
    \/ Call
    \/ CyrSkip
    \/ CyrLetter
    \/ CyrOther
    \/ LatSkip
    \/ LatSuppressed
    \/ LatException
    \/ LatDoubles
    \/ Return

Spec == Init /\ [][Next]_vars

----------------------------------------------------------------------------
(* Vocabulary of the properties *)

\* the 30 letters of the Cyrillic alphabet, both cases
CyrLetters == DOMAIN CYR_TO_LAT \cup {to_uppercase(l) : l \in DOMAIN CYR_TO_LAT}

\* the letters of the Latin forms, both cases
LatLetters ==
    LET low == UNION {{k[i] : i \in 1..Len(k)} : k \in DOMAIN LAT_TO_CYR}
    IN  low \cup {to_uppercase(l) : l \in low}

\* digits, whitespace and ASCII punctuation
Plain == (48..57) \cup {9, 10, 13, 32} \cup (33..47) \cup (58..64) \cup (91..96) \cup (123..126)

\* the converter, while it runs
Running == pc \in {"cyr_to_lat", "lat_to_cyr"}

\* the loop is about to take the char at the cursor
AtChar == Running /\ chars <= Len(input)

\* a skip span starts at the cursor
SkipHere == find_skip_match(rest(input, chars)).some

\* what the last step pushed
Pushed == SubSeq(output', Len(output) + 1, Len(output'))

\* the last step only appended to the output
Appended == Len(output') >= Len(output) /\ SubSeq(output', 1, Len(output)) = output

\* a letter of the Latin alphabet converted on its own, any other char kept
OnItsOwn(ch) ==
    IF <<to_lowercase(ch)>> \in DOMAIN LAT_TO_CYR
    THEN IF is_uppercase(ch) THEN to_uppercase(LAT_TO_CYR[<<to_lowercase(ch)>>])
         ELSE LAT_TO_CYR[<<to_lowercase(ch)>>]
    ELSE ch

\* the chars of s that belong to neither alphabet, in order
NotALetter(ch) == ch \notin CyrLetters \cup LatLetters

Others(s) == SelectSeq(s, NotALetter)

\* some fragment of s, case-folded, is an exception
HasException(s) ==
    \E i \in 1..Len(s) : \E j \in i..Len(s) : str_to_lowercase(SubSeq(s, i, j)) \in EXCEPTIONS

----------------------------------------------------------------------------
(* C1 *)

\* C1: round trip Cyrillic -> Latin -> Cyrillic: for a text s of letters of
\* the Cyrillic alphabet, digits, whitespace and punctuation,
\* lat_to_cyr(cyr_to_lat(s)) = s.
C1_RoundTripCyr ==
    (pc = "done" /\ callee = "cyr_to_lat"
        /\ \A i \in 1..Len(input) : input[i] \in CyrLetters \cup Plain)
    => lat_to_cyr(output) = input

----------------------------------------------------------------------------
(* C2 *)

\* C2: round trip Latin -> Cyrillic -> Latin: for a text s of letters of the
\* Latin forms, digits, whitespace and punctuation that contains no fragment
\* of the exception set, cyr_to_lat(lat_to_cyr(s)) = s.
C2_RoundTripLat ==
    (pc = "done" /\ callee = "lat_to_cyr"
        /\ (\A i \in 1..Len(input) : input[i] \in LatLetters \cup Plain)
        /\ ~HasException(input))
    => cyr_to_lat(output) = input

----------------------------------------------------------------------------
(* C10 *)

\* C10: cyr_to_lat is idempotent: cyr_to_lat(cyr_to_lat(s)) = cyr_to_lat(s)
\* for every input s.
C10_Idempotent ==
    (pc = "done" /\ callee = "cyr_to_lat") => cyr_to_lat(output) = output

----------------------------------------------------------------------------
(* C8 *)

\* C8: with no direction option, the test that sends the input to the
\* conversion to Latin is true iff the input holds a letter of the Cyrillic
\* alphabet (any of the 30, either case).
C8_AutoDetect ==
    any_cyrillic(input) <=> \E i \in 1..Len(input) : input[i] \in CyrLetters

----------------------------------------------------------------------------
(* C6 *)

\* C6: the chars of the input that belong to neither alphabet are in the
\* output unchanged, in the same order and as many times, whichever
\* converter ran.
C6_OthersKept == pc = "done" => Others(output) = Others(input)

----------------------------------------------------------------------------
(* C3 *)

\* C3: in lat_to_cyr, when the case-folded input at the cursor p (no skip
\* span starts there, p is not below the suppression marker) is an exception
\* of length L, the marker becomes p + L and every letter at the offsets
\* p .. p + L - 1 is converted on its own, with no digraph lookahead;
\* digraph-aware processing resumes at p + L.
C3_ExceptionSpan ==
    [][(pc = "lat_to_cyr" /\ chars <= Len(input))
       => LET p == byte_offset(input, chars)
              exc == found_exception(input, p)
              Alone == /\ chars' = chars + 1
                       /\ Appended
                       /\ Pushed = <<OnItsOwn(input[chars])>>
          IN  /\ (~SkipHere /\ p >= skip_until /\ exc.some)
                 => (skip_until' = p + exc.v /\ Alone)
              /\ (p < skip_until) => (skip_until' = skip_until /\ Alone)
              /\ (~SkipHere /\ p >= skip_until /\ ~exc.some) => step' = "doubles"]_vars

----------------------------------------------------------------------------
(* C4 *)

\* C4: when the skip matcher matches at the cursor, in either converter,
\* exactly the matched span is appended to the output, unchanged and once,
\* and the cursor resumes at the first char after the span, whatever the
\* byte lengths of the chars in it; the suppression marker is left alone.
C4_SkipVerbatim ==
    [][(AtChar /\ SkipHere)
       => \E k \in 1..(Len(input) + 1 - chars) :
            /\ byte_len(SubSeq(input, chars, chars + k - 1))
                 = find_skip_match(rest(input, chars)).v
            /\ Appended
            /\ Pushed = SubSeq(input, chars, chars + k - 1)
            /\ chars' = chars + k
            /\ pc' = pc
            /\ skip_until' = skip_until]_vars

\* lat_to_cyr has copied a span that holds a multi-byte letter, and chars
\* follow it
C4_Witness ==
    /\ pc = "lat_to_cyr" /\ step = "skip" /\ chars <= Len(input)
    /\ \E i \in char_at(input, pos)..(chars - 1) : input[i] >= 128
    /\ output = SubSeq(input, char_at(input, pos), chars - 1)

----------------------------------------------------------------------------
(* C5 *)

\* C5: in cyr_to_lat, for a letter of the alphabet at which no skip span
\* starts, the first Latin char is uppercase exactly when the letter is, and
\* the second char of a digraph is uppercase iff the next source char, which
\* is not consumed, is uppercase (lowercase at the end of the input).
C5_CasePropagation ==
    [][(pc = "cyr_to_lat" /\ chars <= Len(input) /\ ~SkipHere
          /\ to_lowercase(input[chars]) \in DOMAIN CYR_TO_LAT)
       => LET src == input[chars]
              lat == CYR_TO_LAT[to_lowercase(src)]
              next_upper == chars + 1 <= Len(input) /\ is_uppercase(input[chars + 1])
          IN  /\ Appended
              /\ Len(Pushed) = Len(lat)
              /\ to_lowercase(Pushed[1]) = lat[1]
              /\ is_uppercase(Pushed[1]) <=> is_uppercase(src)
              /\ Len(lat) = 2 => /\ to_lowercase(Pushed[2]) = lat[2]
                                 /\ is_uppercase(Pushed[2]) <=> next_upper
              /\ chars' = chars + 1]_vars

\* LJ before an uppercase letter has become "LJ", and the letter is still to
\* be converted
C5_Witness ==
    /\ pc = "cyr_to_lat" /\ step = "letter" /\ c = 1033
    /\ chars <= Len(input) /\ input[chars] = 1059
    /\ Len(output) >= 2 /\ SubSeq(output, Len(output) - 1, Len(output)) = <<76, 74>>

----------------------------------------------------------------------------
(* C9 *)

\* the two-char keys of the reverse table: lj, nj, dz-caron
Digraphs == {<<108, 106>>, <<110, 106>>, <<100, 382>>}

\* C9: in lat_to_cyr, at a cursor where no skip span starts, that is not
\* below the suppression marker and where no exception matches: if the
\* case-folded current and next chars are a digraph, one Cyrillic letter is
\* pushed, uppercase iff the first char is, and both chars are consumed;
\* otherwise the current char alone is consumed, mapped by its own key or
\* copied.
C9_EagerDigraph ==
    [][(pc = "lat_to_cyr" /\ chars <= Len(input) /\ ~SkipHere
          /\ byte_offset(input, chars) >= skip_until
          /\ ~found_exception(input, byte_offset(input, chars)).some)
       => LET cur == input[chars]
              key == IF chars + 1 <= Len(input)
                     THEN <<to_lowercase(cur), to_lowercase(input[chars + 1])>>
                     ELSE <<>>
          IN  /\ Appended
              /\ IF key \in Digraphs
                 THEN /\ Len(Pushed) = 1
                      /\ to_lowercase(Pushed[1]) = LAT_TO_CYR[key]
                      /\ is_uppercase(Pushed[1]) <=> is_uppercase(cur)
                      /\ chars' = chars + 2
                 ELSE /\ Pushed = <<OnItsOwn(cur)>>
                      /\ chars' = chars + 1]_vars

\* "Lj" has been merged into one uppercase letter
C9_Witness ==
    /\ pc = "lat_to_cyr" /\ step = "doubles" /\ c = 76
    /\ chars = char_at(input, pos) + 2 /\ input[chars - 1] = 106
    /\ output # <<>> /\ output[Len(output)] = 1033

----------------------------------------------------------------------------
(* C7 *)

\* a step of a converter that does not fail: the cursor advances by at least
\* one char and stays inside the input, a skip match is at least one byte
\* long, the slices of the skip span and of the exception probe end on
\* char boundaries of the input, and past the last char the converter returns
C7_Step ==
    /\ pc' \notin {"panic", "hang"}
    /\ (Running /\ chars > Len(input)) => pc' = "done"
    /\ AtChar
       => LET p == byte_offset(input, chars)
              m == find_skip_match(rest(input, chars))
              exc == found_exception(input, p)
          IN  /\ chars' > chars /\ chars' <= Len(input) + 1 /\ pc' = pc
              /\ is_char_boundary(input, p)
              /\ m.some => (m.v >= 1 /\ is_char_boundary(input, p + m.v))
              /\ (pc = "lat_to_cyr" /\ exc.some)
                 => (is_char_boundary(input, p + exc.v) /\ p + exc.v <= byte_len(input))

\* C7: both converters are total and terminate: no step fails, and every
\* loop iteration advances the cursor by at least one char towards the end
\* of the input, where the converter returns; Len(input) + 1 - chars is the
\* variant of the loop.
C7_Total == [][C7_Step]_vars

\* lat_to_cyr has returned after a skip span with a multi-byte char in it,
\* followed by more input
C7_Witness ==
    /\ pc = "done" /\ callee = "lat_to_cyr"
    /\ find_skip_match(input).some
    /\ find_skip_match(input).v < byte_len(input)
    /\ find_skip_match(input).v > char_at(input, find_skip_match(input).v) - 1

====
